---- MODULE Spec2Model ----
(***************************************************************************)
(* Glance Board: the calendar server (server.js: fetchAndParseICS and the  *)
(* GET /api/events handler) and its feed normaliser.                        *)
(*                                                                          *)
(* Time is counted in whole seconds since the Unix epoch (the code counts   *)
(* milliseconds; every constant of the code is a multiple of 1000 ms).      *)
(* JavaScript values are encoded so that every field has one TLA+ type:     *)
(*   - a missing string property is the string "undefined";                 *)
(*   - an Invalid Date has the time value NaN (-1);                         *)
(*   - an ISO-8601 string is the pair <<days, secondOfDay>> in UTC, and     *)
(*     null is the empty tuple <<>>.                                        *)
(***************************************************************************)
EXTENDS Integers, Sequences, FiniteSets, TLC

VARIABLES
    url,            \* GOOGLE_ICAL_URL is set (process.env, fixed for a run)
    tz,             \* offset of the server's local time from UTC, seconds
    clock,          \* Date.now() / new Date(), seconds
    eventsCache,    \* let eventsCache = {events, lastUpdated, isStale}
    lastFetchTime,  \* let lastFetchTime
    req,            \* the GET /api/events requests and where each stands
    res,            \* the last response sent (res.json)
    data,           \* the parsed feed handed to the loop (normaliser on its own)
    result,         \* what the try block made of `data' (normaliser on its own)
    reported,       \* how often the missing GOOGLE_ICAL_URL was logged
    lastFailed,     \* history: the last upstream fetch that completed failed
    store,          \* localStorage["glance-board-events"]
    cal,            \* AppointmentsList: its React state and its timer
    calFetch,       \* AppointmentsList: the fetchEvents calls and where each stands
    wxStore,        \* localStorage["glance-board-weather"]
    wx,             \* WeatherDisplay: its React state and its timer
    wxFetch,        \* WeatherDisplay: the fetchWeather calls and where each stands
    list            \* AppointmentsList without local cache: state and timer

serverLog == <<reported, lastFailed>>
calendarVars == <<store, cal, calFetch>>
weatherVars == <<wxStore, wx, wxFetch>>
displayVars == <<store, cal, calFetch, wxStore, wx, wxFetch, list>>

vars == <<url, tz, clock, eventsCache, lastFetchTime, req, res, data, result,
          reported, lastFailed, store, cal, calFetch, wxStore, wx, wxFetch, list>>

----------------------------------------------------------------------------
(* Bounds of the model *)

MaxFeedLen == 4     \* components per feed for the normaliser on its own
MaxReq == 3         \* requests per run of the server
MaxFetch == 2       \* fetches a display component starts per run
MaxReload == 1      \* reloads of the page per run

----------------------------------------------------------------------------
(* Time *)

MINUTE == 60
HOUR == 60 * MINUTE
DAY == 24 * HOUR
NaN == 0 - 1

CACHE_DURATION == 60 * 60
HORIZON == 30 * 24 * 60 * 60

\* Date#getHours / getMinutes / getSeconds: local time of day
LocalSecondOfDay(t, off) == (t + off) % DAY
getHours(t, off) == LocalSecondOfDay(t, off) \div HOUR
getMinutes(t, off) == (LocalSecondOfDay(t, off) % HOUR) \div MINUTE
getSeconds(t, off) == LocalSecondOfDay(t, off) % MINUTE

\* new Date(y, m, d) of nowDate: local midnight of the current day
StartOfToday(now, off) == now - LocalSecondOfDay(now, off)

\* nowDate.getTime() + 30 * 24 * 60 * 60 * 1000
ThirtyDaysFromNow(now) == now + HORIZON

\* Date#toISOString (UTC calendar day and second of that day) and its parse
ToISOString(t) == <<t \div DAY, t % DAY>>
DateParse(iso) == iso[1] * DAY + iso[2]

----------------------------------------------------------------------------
(* JavaScript truthiness and || *)

Undefined == "undefined"
Truthy(s) == s \notin {Undefined, ""}
OrElse(a, b) == IF Truthy(a) THEN a ELSE b

\* a start/end property: a Date object, a string, or missing
NoValue == [kind |-> "undefined", t |-> NaN, dateOnly |-> FALSE]
DateValue(t, dateOnly) == [kind |-> "Date", t |-> t, dateOnly |-> dateOnly]
StringValue(t) == [kind |-> "string", t |-> t, dateOnly |-> FALSE]

\* event.end || event.start
EndOf(event) == IF event.end.kind # "undefined" THEN event.end ELSE event.start

\* if (!(x instanceof Date)) x = new Date(x): the time value afterwards
ToDate(v) == v.t

----------------------------------------------------------------------------
(* The feed normaliser: the body of the try block of fetchAndParseICS.      *)
(* A component of the parsed feed is a record                               *)
(*   [key, type, start, end, summary, uid, datetype, location, description] *)
(* and `data' is the sequence of components in the order of `for (key in    *)
(* data)'.  An entry of the list under construction is [key, rec]: the      *)
(* record pushed by the code together with the key it was made from.        *)

\* start.getHours() === 0 && start.getMinutes() === 0 && start.getSeconds() === 0
IsMidnight(t, off) ==
    /\ t # NaN
    /\ getHours(t, off) = 0
    /\ getMinutes(t, off) = 0
    /\ getSeconds(t, off) = 0

\* end.getHours() is reached on a value that is not a Date: TypeError
IsAllDayThrows(event, off) ==
    /\ event.start.kind = "Date"
    /\ ~event.start.dateOnly
    /\ IsMidnight(event.start.t, off)
    /\ EndOf(event).kind # "Date"

\* the all-day test on UTC hours (getUTCHours) instead of local hours
isAllDay_UTC(event, off) ==
    IF event.start.kind # "Date"
    THEN FALSE
    ELSE \/ event.start.dateOnly
         \/ /\ IsMidnight(event.start.t, 0)
            /\ IsMidnight(EndOf(event).t, 0)

\* const isAllDay = !(start instanceof Date) ? false : (start.dateOnly === true || (...))
isAllDay(event, off) ==
    IF event.start.kind # "Date"
    THEN FALSE
    ELSE \/ event.start.dateOnly
         \/ /\ IsMidnight(event.start.t, off)
            /\ IsMidnight(EndOf(event).t, off)

\* the window test with an exclusive upper end
OutsideWindow_Exclusive(start, now, off) ==
    /\ start # NaN
    /\ \/ start < StartOfToday(now, off)
       \/ start >= ThirtyDaysFromNow(now)

\* if (start < startOfToday || start > thirtyDaysFromNow) continue;
\* (a comparison with an Invalid Date is false)
OutsideWindow(start, now, off) ==
    /\ start # NaN
    /\ \/ start < StartOfToday(now, off)
       \/ start > ThirtyDaysFromNow(now)

\* start.toISOString() / end.toISOString() on an Invalid Date: RangeError
PushThrows(event) ==
    \/ ToDate(event.start) = NaN
    \/ ToDate(EndOf(event)) = NaN

\* the record without the default of the title
MakeRecord_NoTitleDefault(event, off) ==
    [id          |-> OrElse(event.uid, event.key),
     title       |-> event.summary,
     start       |-> ToISOString(ToDate(event.start)),
     end         |-> ToISOString(ToDate(EndOf(event))),
     allDay      |-> (isAllDay(event, off) \/ event.datetype = "date"),
     location    |-> OrElse(event.location, Undefined),
     description |-> OrElse(event.description, Undefined)]

\* events.push({...})
MakeRecord(event, off) ==
    [id          |-> OrElse(event.uid, event.key),
     title       |-> OrElse(event.summary, "Untitled Event"),
     start       |-> ToISOString(ToDate(event.start)),
     end         |-> ToISOString(ToDate(EndOf(event))),
     allDay      |-> (isAllDay(event, off) \/ event.datetype = "date"),
     location    |-> OrElse(event.location, Undefined),
     description |-> OrElse(event.description, Undefined)]

\* (a, b) => new Date(a.start).getTime() - new Date(b.start).getTime()
CompareStart(a, b) == DateParse(a.start) - DateParse(b.start)

\* an insertion that puts a record before the records of the same start
RECURSIVE InsertSorted_Unstable(_, _)
InsertSorted_Unstable(x, s) ==
    IF s = <<>> THEN <<x>>
    ELSE IF CompareStart(Head(s).rec, x.rec) < 0
         THEN <<Head(s)>> \o InsertSorted_Unstable(x, Tail(s))
         ELSE <<x>> \o s

\* where events.sort puts a record among the records sorted so far: behind
\* every record that does not compare greater
RECURSIVE InsertSorted(_, _)
InsertSorted(x, s) ==
    IF s = <<>> THEN <<x>>
    ELSE IF CompareStart(Head(s).rec, x.rec) <= 0
         THEN <<Head(s)>> \o InsertSorted(x, Tail(s))
         ELSE <<x>> \o s

\* events.sort(comparator): Array.prototype.sort is stable (Node 18+)
RECURSIVE SortEvents(_)
SortEvents(s) ==
    IF s = <<>> THEN <<>>
    ELSE InsertSorted(s[Len(s)], SortEvents(SubSeq(s, 1, Len(s) - 1)))

\* for (const key in data) { ... }: the list pushed so far, or the throw
RECURSIVE ParseLoop(_, _, _, _, _)
ParseLoop(feed, i, acc, now, off) ==
    IF i > Len(feed) THEN [ok |-> TRUE, entries |-> acc]
    ELSE LET event == feed[i] IN
         IF event.type # "VEVENT"
         THEN ParseLoop(feed, i + 1, acc, now, off)
         ELSE IF IsAllDayThrows(event, off)
         THEN [ok |-> FALSE, entries |-> <<>>]
         ELSE IF OutsideWindow(ToDate(event.start), now, off)
         THEN ParseLoop(feed, i + 1, acc, now, off)
         ELSE IF PushThrows(event)
         THEN [ok |-> FALSE, entries |-> <<>>]
         ELSE ParseLoop(feed, i + 1,
                        Append(acc, [key |-> event.key, rec |-> MakeRecord(event, off)]),
                        now, off)

\* lines 41-84: parse, filter, map, sort
Normalize(feed, now, off) ==
    LET r == ParseLoop(feed, 1, <<>>, now, off) IN
    IF r.ok THEN [ok |-> TRUE, entries |-> SortEvents(r.entries)]
    ELSE r

\* the `events' array itself
EventsOf(entries) == [i \in 1..Len(entries) |-> entries[i].rec]

----------------------------------------------------------------------------
(* The server: fetchAndParseICS and the GET /api/events handler *)

\* let eventsCache = { events: [], lastUpdated: null, isStale: false }
Null == <<>>
InitialCache == [events |-> <<>>, lastUpdated |-> Null, isStale |-> FALSE]

\* the freshness test with the weather display's 10 minutes
IsFresh_TenMinutes(forceRefresh, cache, now, fetchedAt) ==
    /\ ~forceRefresh
    /\ cache.lastUpdated # Null
    /\ (now - fetchedAt) < 10 * 60

\* the freshness test without the force flag
IsFresh_IgnoresForce(forceRefresh, cache, now, fetchedAt) ==
    /\ cache.lastUpdated # Null
    /\ (now - fetchedAt) < CACHE_DURATION

\* !forceRefresh && eventsCache.lastUpdated && (now - lastFetchTime) < CACHE_DURATION
IsFresh(forceRefresh, cache, now, fetchedAt) ==
    /\ ~forceRefresh
    /\ cache.lastUpdated # Null
    /\ (now - fetchedAt) < CACHE_DURATION

\* the answer without URL marked stale
NoUrlResult_Stale(now) ==
    [events |-> <<>>, lastUpdated |-> ToISOString(now), isStale |-> TRUE]

\* if (!GOOGLE_ICAL_URL) return { events: [], lastUpdated: new Date().toISOString(), isStale: false }
NoUrlResult(now) ==
    [events |-> <<>>, lastUpdated |-> ToISOString(now), isStale |-> FALSE]

\* a cache write that keeps the records of the list it replaces
FreshCache_Merge(events, now) ==
    [events |-> eventsCache.events \o events, lastUpdated |-> ToISOString(now),
     isStale |-> FALSE]

\* eventsCache = { events, lastUpdated: new Date().toISOString(), isStale: false }
FreshCache(events, now) ==
    [events |-> events, lastUpdated |-> ToISOString(now), isStale |-> FALSE]

\* the catch block with a placeholder that is not marked stale
CatchResult_PlaceholderFresh(cache, now) ==
    IF cache.lastUpdated # Null
    THEN [cache EXCEPT !.isStale = TRUE]
    ELSE [events |-> <<>>, lastUpdated |-> ToISOString(now), isStale |-> FALSE]

\* the catch block without the test for an earlier value
CatchResult_NoPlaceholder(cache, now) == [cache EXCEPT !.isStale = TRUE]

\* catch (error) { ... }: the stale cache if there is one, else the placeholder
CatchResult(cache, now) ==
    IF cache.lastUpdated # Null
    THEN [cache EXCEPT !.isStale = TRUE]
    ELSE [events |-> <<>>, lastUpdated |-> ToISOString(now), isStale |-> TRUE]

\* a catch block that marks the stored entry stale
CatchCache_MarkStale(cache) == [cache EXCEPT !.isStale = TRUE]

\* what the catch block leaves in eventsCache (it assigns nothing)
CatchCache(cache) == cache

\* a request that has not arrived yet, and one that has been answered
Idle == [status |-> "idle", force |-> FALSE, now |-> 0]
Done == [status |-> "done", force |-> FALSE, now |-> 0]

\* no response has been sent yet
NoResponse ==
    [id |-> 0, force |-> FALSE, fetched |-> FALSE, failed |-> FALSE,
     body |-> InitialCache]

Requests == 1..MaxReq

\* the next request to arrive
NextRequest(r) ==
    /\ req[r].status = "idle"
    /\ \A q \in Requests : q < r => req[q].status # "idle"

\* res.json(result): request r is answered with `body'; `fetched' tells that
\* the call logged 'Fetching ICS feed...', `failed' that it logged
\* 'Failed to fetch ICS:'.  fetchAndParseICS returns on every path (whatever
\* follows its await is inside try/catch, and the catch block returns), so the
\* handler's own catch with its 500 body {error, events, isStale} has no
\* transition here.
Respond(r, force, fetched, failed, body) ==
    /\ req' = [req EXCEPT ![r] = Done]
    /\ res' = [id |-> r, force |-> force, fetched |-> fetched, failed |-> failed,
               body |-> body]

\* GET /api/events[?force=true] up to the first await of fetchAndParseICS:
\* the answer when there is no URL or the cache is fresh, else the upstream
\* fetch is started with `now' captured
Request(r, force) ==
    /\ NextRequest(r)
    /\ IF ~url
       THEN Respond(r, force, FALSE, FALSE, NoUrlResult(clock))
       ELSE IF IsFresh(force, eventsCache, clock, lastFetchTime)
       THEN Respond(r, force, FALSE, FALSE, eventsCache)
       ELSE /\ req' = [req EXCEPT ![r] = [status |-> "pending", force |-> force,
                                          now |-> clock]]
            /\ res' = res
    /\ reported' = (IF url THEN reported ELSE reported + 1)
    /\ UNCHANGED <<url, tz, clock, eventsCache, lastFetchTime, data, result>>
    /\ UNCHANGED <<lastFailed, displayVars>>

\* ical.async.fromURL rejects (transport failure, unparseable text)
FetchReject(r) ==
    /\ req[r].status = "pending"
    /\ eventsCache' = CatchCache(eventsCache)
    /\ lastFetchTime' = lastFetchTime
    /\ Respond(r, req[r].force, TRUE, TRUE, CatchResult(eventsCache, clock))
    /\ lastFailed' = TRUE
    /\ UNCHANGED <<url, tz, clock, data, result, reported, displayVars>>

\* ical.async.fromURL resolves with a parsed feed: the rest of the try block,
\* or the catch block when the loop throws
FetchResolve(r, feed) ==
    /\ req[r].status = "pending"
    /\ LET n == Normalize(feed, clock, tz) IN
       IF n.ok
       THEN /\ eventsCache' = FreshCache(EventsOf(n.entries), clock)
            /\ lastFetchTime' = req[r].now
            /\ Respond(r, req[r].force, TRUE, FALSE, eventsCache')
       ELSE /\ eventsCache' = CatchCache(eventsCache)
            /\ lastFetchTime' = lastFetchTime
            /\ Respond(r, req[r].force, TRUE, TRUE, CatchResult(eventsCache, clock))
    /\ lastFailed' = ~Normalize(feed, clock, tz).ok
    /\ UNCHANGED <<url, tz, clock, data, result, reported, displayVars>>

----------------------------------------------------------------------------
(* The display components before they are mounted *)

Fetches == 1..MaxFetch

\* nothing under the key in localStorage
NoStore ==
    [kind |-> "none", hasEvents |-> FALSE, events |-> <<>>, lastUpdated |-> Null,
     cachedAt |-> NaN]

\* a fetchEvents / fetchWeather call that has not been made yet
NoFetch == [status |-> "idle", isBackground |-> FALSE, force |-> FALSE]

CalUnmounted ==
    [mounted |-> FALSE, events |-> <<>>, lastUpdated |-> NaN,
     isInitialLoad |-> FALSE, isStale |-> FALSE, isRefreshing |-> FALSE,
     mountedAt |-> 0, timerAt |-> 0, loads |-> 0]

\* the weather shown before any data: useState's default
DefaultWeather ==
    [temp |-> 28, description |-> "Partly cloudy", weatherCode |-> 2,
     high |-> 33, low |-> 21]

NoWxStore ==
    [kind |-> "none", hasValue |-> FALSE, weather |-> DefaultWeather,
     lastUpdated |-> Null]

\* the slot of the next fetch a component starts, and whether there is one
FreeSlots(f) == {i \in Fetches : f[i].status = "idle"}
NextSlot(f) == CHOOSE i \in FreeSlots(f) : \A j \in FreeSlots(f) : i <= j
StartFetch(f, isBackground, force) ==
    [f EXCEPT ![NextSlot(f)] = [status |-> "pending", isBackground |-> isBackground,
                                force |-> force]]
EndFetch(f, i) == [f EXCEPT ![i] = [status |-> "done", isBackground |-> FALSE,
                                    force |-> FALSE]]

\* a page reload ends the page's fetches without running their callbacks
DropPending(f) ==
    [i \in Fetches |-> IF f[i].status = "pending"
                       THEN [status |-> "done", isBackground |-> FALSE, force |-> FALSE]
                       ELSE f[i]]

WxUnmounted ==
    [mounted |-> FALSE, weather |-> DefaultWeather, lastUpdated |-> NaN,
     isInitialLoad |-> FALSE, mountedAt |-> 0, timerAt |-> 0, loads |-> 0]

ListUnmounted ==
    [mounted |-> FALSE, events |-> <<>>, lastUpdated |-> NaN, loading |-> FALSE,
     isStale |-> FALSE, mountedAt |-> 0, timerAt |-> 0, inflight |-> 0,
     started |-> 0]

DisplayOff ==
    /\ store = NoStore
    /\ cal = CalUnmounted
    /\ calFetch = [i \in Fetches |-> NoFetch]
    /\ wxStore = NoWxStore
    /\ wx = WxUnmounted
    /\ wxFetch = [i \in Fetches |-> NoFetch]
    /\ list = ListUnmounted

----------------------------------------------------------------------------
(* Inputs *)

\* 2024-10-04T00:00:00Z
Day0 == 20000 * DAY

TzOffsets == {0, 0 - 5 * HOUR}

\* a VEVENT whose start is a Date and that has nothing else but a summary
Event(key, t, summary) ==
    [key |-> key, type |-> "VEVENT", start |-> DateValue(t, FALSE), end |-> NoValue,
     summary |-> summary, uid |-> Undefined, datetype |-> "date-time",
     location |-> Undefined, description |-> Undefined]

\* the instants at which the server is observed
Instants ==
    {Day0 + 22 * HOUR, Day0 + 23 * HOUR - 1, Day0 + 23 * HOUR, Day0 + 25 * HOUR}

\* what the upstream calendar can answer with
FeedA == << Event("k1", Day0 + 23 * HOUR, "Dentist") >>
FeedB == << Event("k1", Day0 + DAY + 10 * HOUR, "Lunch"),
            Event("k2", Day0 + 5 * HOUR, Undefined) >>
FeedMalformed == << [Event("k1", NaN, "Broken") EXCEPT !.start = NoValue] >>
ServerFeeds == {FeedA, FeedB, FeedMalformed}

----------------------------------------------------------------------------
(* The server as a state machine *)

NotRun == [done |-> FALSE, ok |-> FALSE, entries |-> <<>>]

Init ==
    /\ url \in BOOLEAN
    /\ tz \in TzOffsets
    /\ clock = Day0 + 22 * HOUR
    /\ eventsCache = InitialCache
    /\ lastFetchTime = 0
    /\ req = [r \in Requests |-> Idle]
    /\ res = NoResponse
    /\ data = <<>>
    /\ result = NotRun
    /\ reported = (IF url THEN 0 ELSE 1)
    /\ lastFailed = FALSE
    /\ DisplayOff

\* time passes
Tick ==
    /\ \E t \in Instants : t > clock /\ clock' = t
    /\ UNCHANGED <<url, tz, eventsCache, lastFetchTime, req, res, data, result>>
    /\ UNCHANGED <<serverLog, displayVars>>

Next ==
    \/ Tick
    \/ \E r \in Requests, force \in BOOLEAN : Request(r, force)
    \/ \E r \in Requests : FetchReject(r)
    \/ \E r \in Requests, feed \in ServerFeeds : FetchResolve(r, feed)

Spec == Init /\ [][Next]_vars

----------------------------------------------------------------------------
(* The normaliser on its own: every feed of the bounded input sets *)

Keys == <<"k1", "k2", "k3", "k4", "k5", "k6">>

NormNows == {Day0 + 5 * HOUR, Day0 + 13 * HOUR}

\* starts on both sides of both ends of the window, for both offsets
StartTimes ==
    {Day0 - DAY, Day0 - 1, Day0, Day0 + 5 * HOUR, Day0 + 15 * DAY,
     Day0 + HORIZON + 13 * HOUR, Day0 + HORIZON + 13 * HOUR + 1, Day0 + 31 * DAY}

\* components that differ in their start only, and one that is not an event
TimeComponents ==
    {Event("k", t, Undefined) : t \in StartTimes}
    \cup {[Event("k", Day0 + 15 * DAY, Undefined) EXCEPT !.type = "VTIMEZONE"]}

\* one event with every shape of start, end, summary, uid and datetype
RichTimes ==
    {Day0 + 5 * HOUR, Day0 + DAY, Day0 + 3 * DAY + 13 * HOUR + 40 * MINUTE,
     Day0 + 3 * DAY + 18 * HOUR + 40 * MINUTE, NaN}
RichStarts ==
    {DateValue(t, d) : t \in RichTimes, d \in BOOLEAN}
    \cup {StringValue(t) : t \in RichTimes} \cup {NoValue}
RichEnds ==
    {NoValue, DateValue(Day0 + 5 * HOUR, FALSE), DateValue(Day0 + DAY, FALSE),
     DateValue(Day0 + 2 * DAY, FALSE), DateValue(Day0 + 4 * DAY + HOUR, FALSE),
     DateValue(NaN, FALSE), StringValue(Day0 + DAY)}
RichComponents ==
    [key : {"k"}, type : {"VEVENT"}, start : RichStarts, end : RichEnds,
     summary : {Undefined, "", "Dentist"}, uid : {Undefined, "uid-1"},
     datetype : {Undefined, "date", "date-time"},
     location : {Undefined, "Monroe Ave"}, description : {Undefined}]

\* the keys of an object are distinct: the component at position i has key Keys[i]
WithKeys(f) == [i \in DOMAIN f |-> [f[i] EXCEPT !.key = Keys[i]]]

NormFeeds ==
    {WithKeys(f) : f \in UNION {[1..n -> TimeComponents] : n \in 0..MaxFeedLen}}
    \cup {WithKeys(<<c>>) : c \in RichComponents}

InitNormalize ==
    /\ url = TRUE
    /\ tz \in TzOffsets
    /\ clock \in NormNows
    /\ eventsCache = InitialCache
    /\ lastFetchTime = 0
    /\ req = [r \in Requests |-> Idle]
    /\ res = NoResponse
    /\ data \in NormFeeds
    /\ result = NotRun
    /\ reported = 0
    /\ lastFailed = FALSE
    /\ DisplayOff

\* lines 41-84 applied to `data' at nowDate = clock
NormalizeStep ==
    /\ ~result.done
    /\ LET n == Normalize(data, clock, tz) IN
       result' = [done |-> TRUE, ok |-> n.ok, entries |-> n.entries]
    /\ UNCHANGED <<url, tz, clock, eventsCache, lastFetchTime, req, res, data>>
    /\ UNCHANGED <<serverLog, displayVars>>

NextNormalize == NormalizeStep

SpecNormalize == InitNormalize /\ [][NextNormalize]_vars

----------------------------------------------------------------------------
(* Properties of the server (specification Spec) *)

Pending == {r \in Requests : req[r].status = "pending"}

\* request r arrives in this step
Arrives(r) == req[r].status = "idle" /\ req'[r].status # "idle"

\* the force flag of the request that arrives in this step
ArrivedForce(r) == IF req'[r].status = "pending" THEN req'[r].force ELSE res'.force

\* the upstream fetch of request r completes in this step
Completes(r) == req[r].status = "pending" /\ req'[r].status = "done"

\* C1: while one upstream fetch is in flight no second upstream fetch is
\* started: at most one request is ever waiting on ical.async.fromURL.
C1_Coalescing == Cardinality(Pending) <= 1

\* C2: with a URL configured, a previous successful fetch and
\* now - lastFetchTime < CACHE_DURATION, a request without force is answered
\* at once, without an upstream fetch, with eventsCache exactly as stored, and
\* eventsCache and lastFetchTime stay as they are.
C2_FreshnessWindow ==
    [][\A r \in Requests :
        (/\ Arrives(r)
         /\ ~ArrivedForce(r)
         /\ url
         /\ eventsCache.lastUpdated # Null
         /\ clock - lastFetchTime < CACHE_DURATION)
        => (/\ req'[r].status = "done"
            /\ res'.id = r
            /\ ~res'.fetched
            /\ res'.body = eventsCache
            /\ eventsCache' = eventsCache
            /\ lastFetchTime' = lastFetchTime)]_vars

\* a request without force was answered from a non-empty cache
C2_Witness ==
    /\ url
    /\ res.id # 0
    /\ ~res.force
    /\ ~res.fetched
    /\ res.body.events # <<>>
    /\ res.body = eventsCache
    /\ clock - lastFetchTime > 0

\* C3: when an upstream fetch fails and the cache holds a value of an earlier
\* success, the answer is that value's events and lastUpdated with
\* isStale = true, and eventsCache and lastFetchTime are not modified.
C3_StaleFallback ==
    [][\A r \in Requests :
        (Completes(r) /\ res'.failed /\ eventsCache.lastUpdated # Null)
        => (/\ res'.id = r
            /\ res'.body = [events |-> eventsCache.events,
                            lastUpdated |-> eventsCache.lastUpdated,
                            isStale |-> TRUE]
            /\ eventsCache' = eventsCache
            /\ lastFetchTime' = lastFetchTime)]_vars

\* a failed fetch was answered with the events of the cache, marked stale,
\* and the cache still holds them unmarked
C3_Witness ==
    /\ res.failed
    /\ res.body.isStale
    /\ res.body.events # <<>>
    /\ res.body.events = eventsCache.events
    /\ res.body.lastUpdated = eventsCache.lastUpdated
    /\ ~eventsCache.isStale

\* C4 as stated: every answered request with force = true attempted an
\* upstream fetch, in every reachable state.
C4_ForceAlwaysFetches == (res.id # 0 /\ res.force) => res.fetched

\* C4, amended: with a URL configured, every request with force = true
\* attempts an upstream fetch whatever the age of the cache: it is never
\* answered without one.
C4_ForceBypass ==
    [][\A r \in Requests :
        (Arrives(r) /\ ArrivedForce(r) /\ url) => req'[r].status = "pending"]_vars

\* a forced request is waiting on the upstream fetch it started while the
\* cache was inside its freshness window
C4_Witness ==
    /\ url
    /\ eventsCache.lastUpdated # Null
    /\ \E r \in Pending :
          /\ req[r].force
          /\ req[r].now - lastFetchTime < CACHE_DURATION

\* C5: when an upstream fetch fails and none has succeeded yet, the answer is
\* an empty list with isStale = true and a timestamp, the cache stays
\* uninitialised (lastUpdated null, lastFetchTime 0), and a request that
\* arrives while the cache is uninitialised starts an upstream fetch.
C5_FirstRunFailure ==
    [][\A r \in Requests :
        /\ (Completes(r) /\ res'.failed /\ eventsCache.lastUpdated = Null)
           => (/\ res'.id = r
               /\ res'.body.events = <<>>
               /\ res'.body.isStale
               /\ res'.body.lastUpdated = ToISOString(clock)
               /\ eventsCache' = InitialCache
               /\ lastFetchTime' = 0)
        /\ (Arrives(r) /\ url /\ eventsCache.lastUpdated = Null)
           => req'[r].status = "pending"]_vars

\* after a first-run failure a later request is fetching again
C5_Witness ==
    /\ res.failed
    /\ res.body.events = <<>>
    /\ res.body.isStale
    /\ eventsCache = InitialCache
    /\ lastFetchTime = 0
    /\ \E r \in Pending : r > res.id

\* C6: every response has the three fields events (a list), lastUpdated (a
\* timestamp, never null) and isStale (a boolean), whatever the upstream did.
C6_RenderableBody ==
    res.id # 0 =>
        /\ DOMAIN res.body = {"events", "lastUpdated", "isStale"}
        /\ DOMAIN res.body.events = 1..Len(res.body.events)
        /\ res.body.lastUpdated # Null
        /\ Len(res.body.lastUpdated) = 2
        /\ res.body.isStale \in BOOLEAN

\* the first fetch failed and the answer is the placeholder
C6_Witness ==
    /\ res.id # 0
    /\ res.failed
    /\ eventsCache.lastUpdated = Null
    /\ res.body.events = <<>>
    /\ res.body.lastUpdated = ToISOString(clock)

----------------------------------------------------------------------------
(* Properties of the normaliser (specification SpecNormalize) *)

\* the try block ran to its end on `data'
Normalized == result.done /\ result.ok

\* the component of `data' an entry was made from
KeyIndex(k) == CHOOSE i \in DOMAIN data : data[i].key = k
SourceOf(k) == data[KeyIndex(k)]

\* local midnight of the day of t, and time of day, by the calendar
LocalDay(t, off) == (t + off) \div DAY
LocalMidnight(t, off) == LocalDay(t, off) * DAY - off
AtLocalMidnight(t, off) == t = LocalMidnight(t, off)

StartOf(entry) == DateParse(entry.rec.start)
EndTimeOf(entry) == DateParse(entry.rec.end)

EntryKeys == {result.entries[i].key : i \in DOMAIN result.entries}

\* the events of `data' whose start lies in [startOfToday, now + 30 days]
InWindowKeys ==
    {data[i].key : i \in {j \in DOMAIN data :
        /\ data[j].type = "VEVENT"
        /\ LocalMidnight(clock, tz) <= ToDate(data[j].start)
        /\ ToDate(data[j].start) <= clock + 30 * DAY}}

\* C7: the list of a successful fetch holds exactly the VEVENT entries with
\* startOfToday <= start <= now + 30 days, each once, with its start; other
\* components and events outside the window are not in it.
C7_NormalizerWindow ==
    Normalized =>
        /\ EntryKeys = InWindowKeys
        /\ Len(result.entries) = Cardinality(InWindowKeys)
        /\ \A i \in DOMAIN result.entries :
              StartOf(result.entries[i]) = ToDate(SourceOf(result.entries[i].key).start)

\* the feed holds events of the day before today, of today, of today + 15
\* days and of today + 31 days, and exactly the two in the middle are listed
C7_Witness ==
    /\ Normalized
    /\ tz = 0
    /\ {ToDate(data[i].start) : i \in DOMAIN data}
         = {Day0 - DAY, Day0, Day0 + 15 * DAY, Day0 + 31 * DAY}
    /\ {StartOf(result.entries[i]) : i \in DOMAIN result.entries}
         = {Day0, Day0 + 15 * DAY}

\* C8: the list of a successful fetch is ascending by start, and records with
\* the same start are in the order their components had in the feed.
C8_NormalizerOrdering ==
    Normalized =>
        \A i, j \in DOMAIN result.entries :
            i < j =>
                /\ StartOf(result.entries[i]) <= StartOf(result.entries[j])
                /\ StartOf(result.entries[i]) = StartOf(result.entries[j])
                   => KeyIndex(result.entries[i].key) < KeyIndex(result.entries[j].key)

\* a feed in the order T+2, T+0, T+0, T+1 (by size) came out sorted with the
\* two equal starts in feed order
C8_Witness ==
    /\ Normalized
    /\ Len(data) = 4
    /\ Len(result.entries) = 4
    /\ ToDate(data[1].start) > ToDate(data[4].start)
    /\ ToDate(data[4].start) > ToDate(data[2].start)
    /\ ToDate(data[2].start) = ToDate(data[3].start)
    /\ <<result.entries[1].key, result.entries[2].key>> = <<data[2].key, data[3].key>>

\* C9 as stated: every listed event with start and end at local midnight has
\* allDay = true, and every listed event whose start is not at local midnight
\* has allDay = false.
C9_AllDayAsStated ==
    Normalized =>
        \A i \in DOMAIN result.entries :
            LET e == result.entries[i] IN
            /\ (AtLocalMidnight(StartOf(e), tz) /\ AtLocalMidnight(EndTimeOf(e), tz))
               => e.rec.allDay
            /\ ~AtLocalMidnight(StartOf(e), tz) => ~e.rec.allDay

\* C9, amended: for every listed event whose start is a Date object: start and
\* end both at local midnight give allDay = true; a start that is not at local
\* midnight gives allDay = false unless the event carries a date-only marker
\* (start.dateOnly or datetype 'date').
C9_AllDayDetection ==
    Normalized =>
        \A i \in DOMAIN result.entries :
            LET e == result.entries[i]
                src == SourceOf(e.key) IN
            src.start.kind = "Date" =>
                /\ (AtLocalMidnight(StartOf(e), tz) /\ AtLocalMidnight(EndTimeOf(e), tz))
                   => e.rec.allDay
                /\ (/\ ~AtLocalMidnight(StartOf(e), tz)
                    /\ ~src.start.dateOnly
                    /\ src.datetype # "date")
                   => ~e.rec.allDay

\* an unmarked Date event from local midnight to a later local midnight is
\* listed as all-day, in the zone that is not UTC
C9_Witness ==
    /\ Normalized
    /\ tz # 0
    /\ \E i \in DOMAIN result.entries :
          LET e == result.entries[i]
              src == SourceOf(e.key) IN
          /\ src.start.kind = "Date"
          /\ ~src.start.dateOnly
          /\ src.datetype # "date"
          /\ AtLocalMidnight(StartOf(e), tz)
          /\ AtLocalMidnight(EndTimeOf(e), tz)
          /\ e.rec.allDay

\* 'Dentist' at 13:40 local time three days after today, a timed event
\* without end
IsDentist(src) ==
    /\ src.summary = "Dentist"
    /\ src.start = DateValue(LocalMidnight(clock, tz) + 3 * DAY + 13 * HOUR + 40 * MINUTE, FALSE)
    /\ src.end = NoValue
    /\ src.datetype # "date"

\* C10: for every listed event: end equals start when the source has no end;
\* title is the summary when there is one (not empty) and 'Untitled Event'
\* otherwise; id is the uid when there is one and the key otherwise; and
\* 'Dentist' at today+3d 13:40 without end has end = start, allDay = false,
\* title = 'Dentist'.
C10_RecordDefaults ==
    Normalized =>
        \A i \in DOMAIN result.entries :
            LET e == result.entries[i]
                src == SourceOf(e.key) IN
            /\ src.end = NoValue => e.rec.end = e.rec.start
            /\ e.rec.title = (IF src.summary \in {Undefined, ""}
                              THEN "Untitled Event" ELSE src.summary)
            /\ e.rec.id = (IF src.uid \in {Undefined, ""} THEN src.key ELSE src.uid)
            /\ IsDentist(src) =>
                  /\ e.rec.end = e.rec.start
                  /\ e.rec.allDay = FALSE
                  /\ e.rec.title = "Dentist"

\* the Dentist event of the claim was listed
C10_Witness ==
    /\ Normalized
    /\ Len(result.entries) = 1
    /\ IsDentist(SourceOf(result.entries[1].key))
    /\ SourceOf(result.entries[1].key).uid = Undefined
    /\ result.entries[1].rec.title = "Dentist"
    /\ result.entries[1].rec.id = data[1].key
    /\ result.entries[1].rec.end = ToISOString(Day0 + 3 * DAY + 18 * HOUR + 40 * MINUTE)

----------------------------------------------------------------------------
(* Further properties of the server (specification Spec) *)

\* C11: the list of a successful fetch is the normalisation of the feed that
\* was delivered, at the time of the call, and nothing else: it does not
\* depend on the cache contents, lastFetchTime or any counter left by
\* earlier calls.
C11_NormalizerDeterminism ==
    [][\A r \in Requests :
        (Completes(r) /\ ~res'.failed)
        => \E feed \in ServerFeeds :
              LET n == Normalize(feed, clock, tz) IN
              /\ n.ok
              /\ res'.body.events = EventsOf(n.entries)
              /\ eventsCache'.events = EventsOf(n.entries)]_vars

\* the third request fetched FeedB after earlier calls had been answered, and
\* its list is the normalisation of FeedB alone
C11_Witness ==
    /\ res.id = 3
    /\ res.fetched
    /\ ~res.failed
    /\ eventsCache.lastUpdated # Null
    /\ res.body.events = EventsOf(Normalize(FeedB, clock, tz).entries)
    /\ Len(res.body.events) = 2

\* C14 as stated: without a feed URL every call returns an empty list with
\* isStale = false, starts no upstream fetch, leaves eventsCache and
\* lastFetchTime alone, and the missing configuration has been reported at
\* most once since the process started.
C14_MissingConfiguration ==
    [][\A r \in Requests :
        (Arrives(r) /\ ~url)
        => (/\ req'[r].status = "done"
            /\ res'.id = r
            /\ ~res'.fetched
            /\ res'.body.events = <<>>
            /\ ~res'.body.isStale
            /\ eventsCache' = eventsCache
            /\ lastFetchTime' = lastFetchTime
            /\ reported' <= 1)]_vars

C16_StaleSoundness ==
    /\ ~eventsCache.isStale
    /\ res.id # 0 =>
          /\ res.body.isStale => (res.fetched /\ res.failed)
          /\ (~res.fetched \/ ~res.failed) => ~res.body.isStale

\* the last answer is stale, from a call whose fetch failed after an earlier
\* success, and the stored cache is not stale
C16_Witness ==
    /\ res.id # 0
    /\ res.fetched
    /\ res.failed
    /\ lastFailed
    /\ res.body.isStale
    /\ eventsCache.lastUpdated # Null
    /\ ~eventsCache.isStale

----------------------------------------------------------------------------
(* The calendar panel: AppointmentsList with its copy in localStorage *)

\* a key a JSON object does not have reads as undefined
Absent == <<>>

\* new Date(v): Invalid Date (time NaN) for undefined
NewDate(v) == IF v = Absent THEN NaN ELSE DateParse(v)

\* cached ? ... : Infinity
Infinity == 2147483647

\* a > b in JavaScript: false when a is NaN
Greater(a, b) == a # NaN /\ a > b

\* now - t: NaN when t is undefined
Minus(now, t) == IF t = NaN THEN NaN ELSE now - t

EVENTS_CACHE_DURATION == 60 * 60

\* data.events.map(e => ({ ..., start: new Date(e.start), end: new Date(e.end),
\* isAllDay: e.allDay }))
ParseEvent(e) ==
    [id |-> e.id, title |-> e.title, start |-> DateParse(e.start),
     end |-> DateParse(e.end), location |-> e.location,
     description |-> e.description, isAllDay |-> e.allDay]
ParseEvents(events) == [i \in DOMAIN events |-> ParseEvent(events[i])]

\* JSON.stringify of a CalendarEvent: the Dates become ISO strings
StringifyEvent(e) ==
    [e EXCEPT !.start = ToISOString(e.start), !.end = ToISOString(e.end)]

\* data.events.map(e => ({ ...e, start: new Date(e.start), end: new Date(e.end) }))
ReviveEvent(e) == [e EXCEPT !.start = DateParse(e.start), !.end = DateParse(e.end)]

NoCached == [ok |-> FALSE, events |-> <<>>, lastUpdated |-> Absent, cachedAt |-> NaN]

\* loadCachedEvents: null without entry, when JSON.parse throws and when
\* data.events.map throws; else the entry with its events revived
loadCachedEvents(s) ==
    IF s.kind = "entry" /\ s.hasEvents
    THEN [ok |-> TRUE,
          events |-> [i \in DOMAIN s.events |-> ReviveEvent(s.events[i])],
          lastUpdated |-> s.lastUpdated, cachedAt |-> s.cachedAt]
    ELSE NoCached

\* an entry that keeps the time of the write as lastUpdated
saveCachedEvents_StampNow(events, lastUpdated, now) ==
    [kind |-> "entry", hasEvents |-> TRUE,
     events |-> [i \in DOMAIN events |-> StringifyEvent(events[i])],
     lastUpdated |-> ToISOString(now), cachedAt |-> now]

\* saveCachedEvents: { events, lastUpdated: lastUpdated.toISOString(),
\* cachedAt: Date.now() } under the key
saveCachedEvents(events, lastUpdated, now) ==
    [kind |-> "entry", hasEvents |-> TRUE,
     events |-> [i \in DOMAIN events |-> StringifyEvent(events[i])],
     lastUpdated |-> ToISOString(lastUpdated), cachedAt |-> now]

\* the useState initialisers
CalInitialState(s, now) ==
    LET cached == loadCachedEvents(s) IN
    [mounted |-> TRUE,
     events |-> cached.events,
     lastUpdated |-> (IF cached.ok THEN NewDate(cached.lastUpdated) ELSE now),
     isInitialLoad |-> ~cached.ok,
     isStale |-> FALSE, isRefreshing |-> FALSE,
     mountedAt |-> now, timerAt |-> now + EVENTS_CACHE_DURATION,
     loads |-> cal.loads + 1]

\* cacheAge = cached ? now - cached.cachedAt : Infinity
CalCacheAge(s, now) ==
    LET cached == loadCachedEvents(s) IN
    IF cached.ok THEN Minus(now, cached.cachedAt) ELSE Infinity

\* if (cacheAge > CACHE_DURATION)
CalExpired(s, now) == Greater(CalCacheAge(s, now), EVENTS_CACHE_DURATION)

\* the component after its first render and its effect, and its fetches
CalLoad(fetches) ==
    IF CalExpired(store, clock)
    THEN /\ cal' = CalInitialState(store, clock)
         /\ calFetch' = StartFetch(fetches, loadCachedEvents(store).ok, FALSE)
    ELSE /\ cal' = [CalInitialState(store, clock) EXCEPT !.isInitialLoad = FALSE]
         /\ calFetch' = fetches

\* the page is opened. One component of the page is followed per behaviour:
\* the components share no state (each has its own key and its own timer).
CalMount ==
    /\ ~cal.mounted /\ ~wx.mounted /\ ~list.mounted
    /\ CalLoad(calFetch)
    /\ UNCHANGED <<url, tz, clock, eventsCache, lastFetchTime, req, res, data, result>>
    /\ UNCHANGED <<serverLog, store, weatherVars, list>>

\* the page is reloaded
CalReload ==
    /\ cal.mounted
    /\ cal.loads <= MaxReload
    /\ FreeSlots(calFetch) # {}
    /\ CalLoad(DropPending(calFetch))
    /\ UNCHANGED <<url, tz, clock, eventsCache, lastFetchTime, req, res, data, result>>
    /\ UNCHANGED <<serverLog, store, weatherVars, list>>

\* setInterval(() => fetchEvents(true), CACHE_DURATION)
CalTimer ==
    /\ cal.mounted
    /\ clock = cal.timerAt
    /\ FreeSlots(calFetch) # {}
    /\ cal' = [cal EXCEPT !.timerAt = @ + EVENTS_CACHE_DURATION]
    /\ calFetch' = StartFetch(calFetch, TRUE, FALSE)
    /\ UNCHANGED <<url, tz, clock, eventsCache, lastFetchTime, req, res, data, result>>
    /\ UNCHANGED <<serverLog, store, weatherVars, list>>

\* Update Now: onClick={() => fetchEvents(false, true)}, disabled={isRefreshing}
CalClick ==
    /\ cal.mounted
    /\ ~cal.isRefreshing
    /\ FreeSlots(calFetch) # {}
    /\ cal' = [cal EXCEPT !.isRefreshing = TRUE]
    /\ calFetch' = StartFetch(calFetch, FALSE, TRUE)
    /\ UNCHANGED <<url, tz, clock, eventsCache, lastFetchTime, req, res, data, result>>
    /\ UNCHANGED <<serverLog, store, weatherVars, list>>

\* a finally block that leaves isInitialLoad alone
CalFinally_KeepLoading(c, i) == [c EXCEPT !.isRefreshing = FALSE]

\* finally { if (!isBackground) setIsInitialLoad(false); setIsRefreshing(false) }
CalFinally(c, i) ==
    [c EXCEPT !.isInitialLoad = IF calFetch[i].isBackground THEN @ ELSE FALSE,
              !.isRefreshing = FALSE]

\* fetch and response.json() succeed: the try block to its end, then finally
CalFetchDone(i, body) ==
    /\ cal.mounted
    /\ calFetch[i].status = "pending"
    /\ LET parsedEvents == ParseEvents(body.events)
           updated == DateParse(body.lastUpdated) IN
       /\ cal' = CalFinally([cal EXCEPT !.events = parsedEvents,
                                         !.lastUpdated = updated,
                                         !.isStale = body.isStale], i)
       /\ store' = saveCachedEvents(parsedEvents, updated, clock)
    /\ calFetch' = EndFetch(calFetch, i)
    /\ UNCHANGED <<url, tz, clock, eventsCache, lastFetchTime, req, res, data, result>>
    /\ UNCHANGED <<serverLog, weatherVars, list>>

\* fetch rejects or the body is not JSON: catch, then finally
CalFetchFail(i) ==
    /\ cal.mounted
    /\ calFetch[i].status = "pending"
    /\ cal' = CalFinally([cal EXCEPT !.isStale = TRUE], i)
    /\ calFetch' = EndFetch(calFetch, i)
    /\ UNCHANGED <<url, tz, clock, eventsCache, lastFetchTime, req, res, data, result>>
    /\ UNCHANGED <<serverLog, store, weatherVars, list>>

----------------------------------------------------------------------------
(* The weather panel: WeatherDisplay with its copy in localStorage *)

WEATHER_CACHE_DURATION == 10 * 60

\* the fields of an object that has none of them: undefined
UndefinedWeather ==
    [temp |-> NaN, description |-> Undefined, weatherCode |-> NaN,
     high |-> NaN, low |-> NaN]

\* weatherCodes[code] || "Partly cloudy"
weatherCodes(code) ==
    CASE code = 0 -> "Clear sky"
      [] code = 1 -> "Mainly clear"
      [] code = 2 -> "Partly cloudy"
      [] code = 3 -> "Overcast"
      [] code = 45 -> "Foggy"
      [] code = 48 -> "Depositing rime fog"
      [] code = 51 -> "Light drizzle"
      [] code = 53 -> "Moderate drizzle"
      [] code = 55 -> "Dense drizzle"
      [] code = 61 -> "Slight rain"
      [] code = 63 -> "Moderate rain"
      [] code = 65 -> "Heavy rain"
      [] code = 71 -> "Slight snow"
      [] code = 73 -> "Moderate snow"
      [] code = 75 -> "Heavy snow"
      [] code = 95 -> "Thunderstorm"
      [] OTHER -> "Partly cloudy"

\* Math.round of a temperature given in tenths of a degree
MathRound(tenths) == (tenths + 5) \div 10

\* newWeather without its lastUpdated
NewWeather(d) ==
    [temp |-> MathRound(d.temperature_2m),
     description |-> weatherCodes(d.weather_code),
     weatherCode |-> d.weather_code,
     high |-> MathRound(d.temperature_2m_max),
     low |-> MathRound(d.temperature_2m_min)]

NoCachedWeather == [ok |-> FALSE, weather |-> DefaultWeather, lastUpdated |-> NaN]

\* loadCachedWeather: null without entry and when JSON.parse throws; else
\* { ...data, lastUpdated: new Date(data.lastUpdated) }
loadCachedWeather(s) ==
    IF s.kind = "entry"
    THEN [ok |-> TRUE,
          weather |-> (IF s.hasValue THEN s.weather ELSE UndefinedWeather),
          lastUpdated |-> NewDate(s.lastUpdated)]
    ELSE NoCachedWeather

\* saveCachedWeather: JSON.stringify(data) under the key
saveCachedWeather(weather, lastUpdated) ==
    [kind |-> "entry", hasValue |-> TRUE, weather |-> weather,
     lastUpdated |-> ToISOString(lastUpdated)]

\* the useState initialisers
WxInitialState(s, now) ==
    LET cached == loadCachedWeather(s) IN
    [mounted |-> TRUE,
     weather |-> cached.weather,
     lastUpdated |-> (IF cached.ok THEN cached.lastUpdated ELSE now),
     isInitialLoad |-> ~cached.ok,
     mountedAt |-> now, timerAt |-> now + WEATHER_CACHE_DURATION,
     loads |-> wx.loads + 1]

\* cacheAge = cached ? now - cached.lastUpdated.getTime() : Infinity
WxCacheAge(s, now) ==
    LET cached == loadCachedWeather(s) IN
    IF cached.ok THEN Minus(now, cached.lastUpdated) ELSE Infinity

\* a mount that refreshes whatever the age of the cached weather
WxExpired_Always(s, now) == TRUE

\* if (cacheAge > CACHE_DURATION)
WxExpired(s, now) == Greater(WxCacheAge(s, now), WEATHER_CACHE_DURATION)

\* the component after its first render and its effect, and its fetches
WxLoad(fetches) ==
    IF WxExpired(wxStore, clock)
    THEN /\ wx' = WxInitialState(wxStore, clock)
         /\ wxFetch' = StartFetch(fetches, loadCachedWeather(wxStore).ok, FALSE)
    ELSE /\ wx' = [WxInitialState(wxStore, clock) EXCEPT !.isInitialLoad = FALSE]
         /\ wxFetch' = fetches

\* the page is opened
WxMount ==
    /\ ~cal.mounted /\ ~wx.mounted /\ ~list.mounted
    /\ WxLoad(wxFetch)
    /\ UNCHANGED <<url, tz, clock, eventsCache, lastFetchTime, req, res, data, result>>
    /\ UNCHANGED <<serverLog, wxStore, calendarVars, list>>

\* the page is reloaded
WxReload ==
    /\ wx.mounted
    /\ wx.loads <= MaxReload
    /\ FreeSlots(wxFetch) # {}
    /\ WxLoad(DropPending(wxFetch))
    /\ UNCHANGED <<url, tz, clock, eventsCache, lastFetchTime, req, res, data, result>>
    /\ UNCHANGED <<serverLog, wxStore, calendarVars, list>>

\* setInterval(() => fetchWeather(true), CACHE_DURATION)
WxTimer ==
    /\ wx.mounted
    /\ clock = wx.timerAt
    /\ FreeSlots(wxFetch) # {}
    /\ wx' = [wx EXCEPT !.timerAt = @ + WEATHER_CACHE_DURATION]
    /\ wxFetch' = StartFetch(wxFetch, TRUE, FALSE)
    /\ UNCHANGED <<url, tz, clock, eventsCache, lastFetchTime, req, res, data, result>>
    /\ UNCHANGED <<serverLog, wxStore, calendarVars, list>>

\* finally { if (!isBackground) setIsInitialLoad(false) }
WxFinally(w, i) ==
    [w EXCEPT !.isInitialLoad = IF wxFetch[i].isBackground THEN @ ELSE FALSE]

\* response.ok and response.json() succeeds
WxFetchDone(i, d) ==
    /\ wx.mounted
    /\ wxFetch[i].status = "pending"
    /\ wx' = WxFinally([wx EXCEPT !.weather = NewWeather(d), !.lastUpdated = clock], i)
    /\ wxStore' = saveCachedWeather(NewWeather(d), clock)
    /\ wxFetch' = EndFetch(wxFetch, i)
    /\ UNCHANGED <<url, tz, clock, eventsCache, lastFetchTime, req, res, data, result>>
    /\ UNCHANGED <<serverLog, calendarVars, list>>

\* the response is not ok, or fetch rejects, or the body is not JSON: the
\* cached data is kept
WxFetchFail(i) ==
    /\ wx.mounted
    /\ wxFetch[i].status = "pending"
    /\ wx' = WxFinally(wx, i)
    /\ wxFetch' = EndFetch(wxFetch, i)
    /\ UNCHANGED <<url, tz, clock, eventsCache, lastFetchTime, req, res, data, result>>
    /\ UNCHANGED <<serverLog, wxStore, calendarVars, list>>

----------------------------------------------------------------------------
(* The calendar panel without a copy in localStorage *)

LIST_INTERVAL == 60 * 60

\* useState defaults, then the effect: fetchEvents() and the timer
ListMount ==
    /\ ~cal.mounted /\ ~wx.mounted /\ ~list.mounted
    /\ list' = [mounted |-> TRUE, events |-> <<>>, lastUpdated |-> clock,
                loading |-> TRUE, isStale |-> FALSE, mountedAt |-> clock,
                timerAt |-> clock + LIST_INTERVAL, inflight |-> 1, started |-> 1]
    /\ UNCHANGED <<url, tz, clock, eventsCache, lastFetchTime, req, res, data, result>>
    /\ UNCHANGED <<serverLog, calendarVars, weatherVars>>

\* setInterval(fetchEvents, 60 * 60 * 1000): fetchEvents starts with
\* setLoading(true)
ListTimer ==
    /\ list.mounted
    /\ clock = list.timerAt
    /\ list.started < MaxFetch
    /\ list' = [list EXCEPT !.loading = TRUE, !.timerAt = @ + LIST_INTERVAL,
                            !.inflight = @ + 1, !.started = @ + 1]
    /\ UNCHANGED <<url, tz, clock, eventsCache, lastFetchTime, req, res, data, result>>
    /\ UNCHANGED <<serverLog, calendarVars, weatherVars>>

\* fetch and response.json() succeed
ListFetchDone(body) ==
    /\ list.mounted
    /\ list.inflight > 0
    /\ list' = [list EXCEPT !.events = ParseEvents(body.events),
                            !.lastUpdated = DateParse(body.lastUpdated),
                            !.isStale = body.isStale,
                            !.loading = FALSE,
                            !.inflight = @ - 1]
    /\ UNCHANGED <<url, tz, clock, eventsCache, lastFetchTime, req, res, data, result>>
    /\ UNCHANGED <<serverLog, calendarVars, weatherVars>>

\* fetch rejects or the body is not JSON
ListFetchFail ==
    /\ list.mounted
    /\ list.inflight > 0
    /\ list' = [list EXCEPT !.isStale = TRUE, !.loading = FALSE, !.inflight = @ - 1]
    /\ UNCHANGED <<url, tz, clock, eventsCache, lastFetchTime, req, res, data, result>>
    /\ UNCHANGED <<serverLog, calendarVars, weatherVars>>

----------------------------------------------------------------------------
(* The page as a state machine *)

\* the time at which the copies found in localStorage were written
T0 == Day0 + 12 * HOUR

\* the times at which the page is opened
DisplayNows ==
    {T0 + 5 * MINUTE, T0 + 10 * MINUTE, T0 + 60 * MINUTE, T0 + 61 * MINUTE}

\* what the calendar holds while the page is open
FeedFar == << Event("k1", Day0 + 20 * DAY, "Conference"),
              Event("k2", Day0 + 13 * HOUR, "Standup") >>
DisplayFeeds == {FeedA, FeedFar}

\* the server's cache after a fetch at T0
HitCache == FreshCache(EventsOf(Normalize(FeedA, T0, tz).entries), T0)

\* the bodies GET /api/events can answer with at `now': a successful fetch,
\* the cache of T0, that cache after a failed fetch, the placeholder of a
\* first failure, and the answer without URL
CalBodies(now) ==
    {FreshCache(EventsOf(Normalize(f, now, tz).entries), now) : f \in DisplayFeeds}
    \cup {HitCache, CatchResult(HitCache, now), CatchResult(InitialCache, now),
          NoUrlResult(now)}

\* what the browser can hold under "glance-board-events": nothing, text that
\* is not JSON, the copy written at T0, and that copy without one of its keys
GoodStore == saveCachedEvents(ParseEvents(HitCache.events), T0, T0)
CalStores ==
    {NoStore,
     [NoStore EXCEPT !.kind = "corrupt"],
     GoodStore,
     [GoodStore EXCEPT !.cachedAt = NaN],
     [GoodStore EXCEPT !.lastUpdated = Absent],
     [GoodStore EXCEPT !.hasEvents = FALSE, !.events = <<>>]}

\* what api.open-meteo.com can answer with (temperatures in tenths)
WxAnswers ==
    {[temperature_2m |-> 715, weather_code |-> 0,
      temperature_2m_max |-> 780, temperature_2m_min |-> 604],
     [temperature_2m |-> 345, weather_code |-> 99,
      temperature_2m_max |-> 400, temperature_2m_min |-> 285]}

\* what the browser can hold under "glance-board-weather"
GoodWxStore ==
    saveCachedWeather(
        NewWeather([temperature_2m |-> 652, weather_code |-> 3,
                    temperature_2m_max |-> 700, temperature_2m_min |-> 550]), T0)
WxStores ==
    {NoWxStore,
     [NoWxStore EXCEPT !.kind = "corrupt"],
     GoodWxStore,
     [GoodWxStore EXCEPT !.lastUpdated = Absent],
     [GoodWxStore EXCEPT !.hasValue = FALSE]}

InitDisplay ==
    /\ url = TRUE
    /\ tz = 0
    /\ clock \in DisplayNows
    /\ eventsCache = InitialCache
    /\ lastFetchTime = 0
    /\ req = [r \in Requests |-> Idle]
    /\ res = NoResponse
    /\ data = <<>>
    /\ result = NotRun
    /\ reported = 0
    /\ lastFailed = FALSE
    /\ \/ store \in CalStores /\ wxStore = NoWxStore
       \/ store = NoStore /\ wxStore \in WxStores
    /\ cal = CalUnmounted
    /\ calFetch = [i \in Fetches |-> NoFetch]
    /\ wx = WxUnmounted
    /\ wxFetch = [i \in Fetches |-> NoFetch]
    /\ list = ListUnmounted

\* when the timer of the mounted component fires next, and half its period
TimerDue ==
    IF cal.mounted THEN cal.timerAt ELSE IF wx.mounted THEN wx.timerAt ELSE list.timerAt
HalfPeriod ==
    IF cal.mounted THEN EVENTS_CACHE_DURATION \div 2
    ELSE IF wx.mounted THEN WEATHER_CACHE_DURATION \div 2
    ELSE LIST_INTERVAL \div 2

\* the mounted component can still start or finish a fetch
FetchesLeft ==
    \/ cal.mounted /\ \E i \in Fetches : calFetch[i].status # "done"
    \/ wx.mounted /\ \E i \in Fetches : wxFetch[i].status # "done"
    \/ list.mounted /\ (list.started < MaxFetch \/ list.inflight > 0)

\* time passes, up to the instant the timer is due
DisplayTick ==
    /\ FetchesLeft
    /\ clock < TimerDue
    /\ clock' = clock + HalfPeriod
    /\ UNCHANGED <<url, tz, eventsCache, lastFetchTime, req, res, data, result>>
    /\ UNCHANGED <<serverLog, displayVars>>

NextDisplay ==
    \/ DisplayTick
    \/ CalMount
    \/ CalReload
    \/ CalTimer
    \/ CalClick
    \/ \E i \in Fetches : CalFetchFail(i)
    \/ \E i \in Fetches : \E body \in CalBodies(clock) : CalFetchDone(i, body)
    \/ WxMount
    \/ WxReload
    \/ WxTimer
    \/ \E i \in Fetches : WxFetchFail(i)
    \/ \E i \in Fetches : \E d \in WxAnswers : WxFetchDone(i, d)
    \/ ListMount
    \/ ListTimer
    \/ ListFetchFail
    \/ \E body \in CalBodies(clock) : ListFetchDone(body)

SpecDisplay == InitDisplay /\ [][NextDisplay]_vars

----------------------------------------------------------------------------
(* Properties of the page (specification SpecDisplay) *)

\* the component is rendered for the first time in this step (page opened or
\* reloaded), and its effect starts a refresh
CalLoads == cal'.loads # cal.loads
WxLoads == wx'.loads # wx.loads
CalRefreshStarted ==
    \E i \in Fetches : calFetch[i].status = "idle" /\ calFetch'[i].status = "pending"
WxRefreshStarted ==
    \E i \in Fetches : wxFetch[i].status = "idle" /\ wxFetch'[i].status = "pending"

\* the periodic timer of a component fires in this step
CalTimerFires == cal.mounted /\ ~CalLoads /\ cal'.timerAt # cal.timerAt
WxTimerFires == wx.mounted /\ ~WxLoads /\ wx'.timerAt # wx.timerAt
ListTimerFires == list.mounted /\ list'.timerAt # list.timerAt

\* C12: every event the calendar panel displays starts no later than 14 days
\* after the time of the refresh that produced the list (lastUpdated).
C12_FourteenDayWindow ==
    (cal.mounted /\ cal.lastUpdated # NaN) =>
        \A i \in DOMAIN cal.events :
            cal.events[i].start <= cal.lastUpdated + 14 * DAY

\* C13: while the weather display is mounted its refresh timer fires once
\* per hour: every firing is a whole number of hours after the mount.
C13_HourlyWeatherTimer ==
    [][WxTimerFires =>
          /\ clock > wx.mountedAt
          /\ (clock - wx.mountedAt) % HOUR = 0]_vars

\* C17, for the on-mount checks of the page and an entry that has its
\* timestamp: a refresh is started exactly when now - fetchedAt >=
\* cacheDuration, the boundary included.
C17_ExpiryPredicate ==
    [][/\ (CalLoads /\ loadCachedEvents(store).ok /\ store.cachedAt # NaN)
          => (CalRefreshStarted <=> clock - store.cachedAt >= EVENTS_CACHE_DURATION)
       /\ (WxLoads /\ loadCachedWeather(wxStore).ok /\ wxStore.lastUpdated # Absent)
          => (WxRefreshStarted
              <=> clock - DateParse(wxStore.lastUpdated) >= WEATHER_CACHE_DURATION)]_vars

UnusableEvents(s) == ~loadCachedEvents(s).ok \/ s.cachedAt = NaN
UnusableWeather(s) == s.kind # "entry" \/ s.lastUpdated = Absent \/ ~s.hasValue

\* C19: with an entry that is missing, unparseable, or without a valid
\* timestamp or value, the component starts from the placeholder, shows the
\* initial loading state and starts a refresh at once.
C19_CorruptionAsNoCache ==
    [][/\ (CalLoads /\ UnusableEvents(store))
          => /\ cal'.events = <<>>
             /\ cal'.isInitialLoad
             /\ CalRefreshStarted
       /\ (WxLoads /\ UnusableWeather(wxStore))
          => /\ wx'.weather = DefaultWeather
             /\ wx'.isInitialLoad
             /\ WxRefreshStarted]_vars

\* C20: a refresh started by the periodic timer while a value is displayed
\* never makes the loading indicator visible.
C20_BackgroundNoLoading ==
    [][/\ (CalTimerFires /\ loadCachedEvents(store).ok)
          => cal'.isInitialLoad = cal.isInitialLoad
       /\ (WxTimerFires /\ loadCachedWeather(wxStore).ok)
          => wx'.isInitialLoad = wx.isInitialLoad
       /\ (ListTimerFires /\ list.events # <<>> /\ ~list.loading)
          => ~list'.loading]_vars

----------------------------------------------------------------------------
(* Further properties of the page (specification SpecDisplay) *)

\* a fetchEvents / fetchWeather call of the mounted component completes in
\* this step
CalCompletes(i) ==
    /\ ~CalLoads
    /\ calFetch[i].status = "pending"
    /\ calFetch'[i].status = "done"
WxCompletes(i) ==
    /\ ~WxLoads
    /\ wxFetch[i].status = "pending"
    /\ wxFetch'[i].status = "done"

\* the events and lastUpdated of the entry in localStorage
PersistedValue(s) == <<loadCachedEvents(s).events, NewDate(loadCachedEvents(s).lastUpdated)>>

\* C21: once events of a successful fetch are displayed, a refresh that ends
\* in failure (the stale indicator is set) leaves the displayed list, its
\* lastUpdated and the events and lastUpdated of the persisted entry as they
\* were; the list never becomes the empty placeholder.
C21_LastKnownValueKept ==
    [][\A i \in Fetches :
        (/\ CalCompletes(i)
         /\ cal'.isStale
         /\ cal.events # <<>>
         /\ loadCachedEvents(store).ok)
        => (/\ cal'.events = cal.events
            /\ cal'.lastUpdated = cal.lastUpdated
            /\ PersistedValue(store') = PersistedValue(store))]_vars

\* the age of the cached weather, when there is one with a valid lastUpdated
WxHasAge == loadCachedWeather(wxStore).ok /\ loadCachedWeather(wxStore).lastUpdated # NaN
WxAge == clock - loadCachedWeather(wxStore).lastUpdated

----------------------------------------------------------------------------
(* Properties of overlapping requests and of serving (specification Spec) *)

\* C23: lastFetchTime never decreases: when overlapping upstream fetches
\* complete, the cache is left with the time (and the result) of the fetch
\* that was started later.
C23_NoCacheRegression ==
    [][lastFetchTime' >= lastFetchTime]_vars

----------------------------------------------------------------------------
(* Properties of the calendar panel's requests (specification SpecDisplay) *)

\* the fetchEvents calls started by the Update Now button that are in flight
ForcedInFlight == {i \in Fetches : calFetch[i].status = "pending" /\ calFetch[i].force}

\* C24: while a request started by the Update Now button is in flight,
\* isRefreshing is true (the button is disabled), so no second forced request
\* can be started before the first completes.
C24_RefreshingUntilDone ==
    (cal.mounted /\ ForcedInFlight # {}) => cal.isRefreshing

\* C25: saveCachedEvents runs only for a response with isStale = false: a
\* response with isStale = true leaves the entry in localStorage, and its
\* cachedAt, as they were.
C25_PersistOnlyFresh ==
    [][\A i \in Fetches : (CalCompletes(i) /\ cal'.isStale) => store' = store]_vars

----------------------------------------------------------------------------
(* Properties of what the server serves (specification Spec) *)

\* request r is answered in this step
Answered(r) == req[r].status # "done" /\ req'[r].status = "done" /\ res'.id = r

\* C26: every event of every response, also one answered from the cache or
\* from the stale fallback, starts at or after startOfToday taken at the time
\* of the response.
C26_WindowAtServeTime ==
    [][\A r \in Requests :
        Answered(r)
        => \A i \in DOMAIN res'.body.events :
              StartOfToday(clock, tz) <= DateParse(res'.body.events[i].start)]_vars

----------------------------------------------------------------------------
(* Properties of the loading indicator (specification SpecDisplay) *)

\* a call that is not a background call is in flight
CalForegroundInFlight ==
    \E i \in Fetches : calFetch[i].status = "pending" /\ ~calFetch[i].isBackground
WxForegroundInFlight ==
    \E i \in Fetches : wxFetch[i].status = "pending" /\ ~wxFetch[i].isBackground

\* C27: opened without a persisted entry, a component shows isInitialLoad
\* from its first render and has started its first refresh; isInitialLoad is
\* true only while that refresh (a call that is not a background call) is in
\* flight, and is false as soon as such a call completes, successfully or
\* not; within one page load, once false it is never true again.
C27_LoadingTerminates ==
    [][/\ (CalLoads /\ store.kind = "none")
          => (cal'.isInitialLoad /\ CalRefreshStarted)
       /\ (WxLoads /\ wxStore.kind = "none")
          => (wx'.isInitialLoad /\ WxRefreshStarted)
       /\ (cal'.mounted /\ cal'.isInitialLoad) => CalForegroundInFlight'
       /\ (wx'.mounted /\ wx'.isInitialLoad) => WxForegroundInFlight'
       /\ \A i \in Fetches :
             /\ (CalCompletes(i) /\ ~calFetch[i].isBackground) => ~cal'.isInitialLoad
             /\ (WxCompletes(i) /\ ~wxFetch[i].isBackground) => ~wx'.isInitialLoad
       /\ (cal.mounted /\ ~CalLoads /\ ~cal.isInitialLoad) => ~cal'.isInitialLoad
       /\ (wx.mounted /\ ~WxLoads /\ ~wx.isInitialLoad) => ~wx'.isInitialLoad]_vars

\* the page was opened without a persisted entry, its first refresh failed,
\* and the loading indicator is off while a timer refresh is in flight
C27_Witness ==
    /\ cal.mounted
    /\ cal.loads = 1
    /\ store.kind = "none"
    /\ cal.isStale
    /\ ~cal.isInitialLoad
    /\ calFetch[1].status = "done"
    /\ calFetch[2].status = "pending"
    /\ calFetch[2].isBackground

====
